---- MODULE Spec2Model ----
(***************************************************************************)
(* Model of bytify-impl/src/lib.rs: the bytify! literal-to-bytes compiler. *)
(*                                                                         *)
(* A u64 is a tuple of 8 bytes, least significant first (TLC's integers    *)
(* are 32 bits wide, the program's are 64), and every operation on it      *)
(* (comparison, truncating cast, complement, wrapping increment) is done   *)
(* on that tuple.  An f64 is its IEEE-754 fields [exp, hi, lo]: the 11 bit *)
(* biased exponent, the upper 23 and the lower 29 bits of the fraction.    *)
(***************************************************************************)
EXTENDS Integers, Sequences, FiniteSets, TLC

VARIABLES
    DEFAULT_ENDIANNESS, \* the build's default byte order (a cfg feature)
    input,              \* MyMacroInput.list: the expressions, in order
    pos,                \* how many expressions the for loop has consumed
    output,             \* the Vec<u8> of bytify_implementation
    result,             \* "" while the loop runs, then "Ok" or the Error kind
    returned,           \* the bytes the caller of bytify gets (<<>> if none)
    pc                  \* "loop", "return" (bytify_implementation is back), "done", "panic"

vars == <<DEFAULT_ENDIANNESS, input, pos, output, result, returned, pc>>

\* The longest list of expressions given to the macro (beyond one element).
MaxLen == 3

----------------------------------------------------------------------------
(* Bytes and 64 bit words                                                  *)

Byte == 0..255

RECURSIVE Reverse(_)
Reverse(s) == IF s = <<>> THEN <<>> ELSE Reverse(Tail(s)) \o <<Head(s)>>

RECURSIVE Zeros(_)
Zeros(n) == IF n = 0 THEN <<>> ELSE <<0>> \o Zeros(n - 1)

\* `a > b` on two unsigned words of the same number of bytes.
UGt(a, b) ==
    \E i \in 1..Len(a) :
        /\ a[i] > b[i]
        /\ \A j \in (i + 1)..Len(a) : a[j] = b[j]

\* `a < b` on two unsigned words.
ULt(a, b) == UGt(b, a)

\* `x as uN`, N = 8 * n: the low n bytes.
AsUint(x, n) == SubSeq(x, 1, n)

\* `!x` on an unsigned word.
BitNot(x) == [i \in 1..Len(x) |-> 255 - x[i]]

\* wrapping_add_1 with the increment forgotten (the one's complement).
wrapping_add_1_Forgotten(x) == x

\* `x.wrapping_add(1)` on an unsigned word: the carry runs upward and is
\* dropped at the top.
RECURSIVE wrapping_add_1(_)
wrapping_add_1(x) ==
    IF x = <<>> THEN <<>>
    ELSE IF Head(x) = 255 THEN <<0>> \o wrapping_add_1(Tail(x))
    ELSE <<Head(x) + 1>> \o Tail(x)

\* The integer constants of int_to_suffix, as words.
X80 == <<128, 0, 0, 0, 0, 0, 0, 0>>
X8000 == <<0, 128, 0, 0, 0, 0, 0, 0>>
X80000000 == <<0, 0, 0, 128, 0, 0, 0, 0>>
X8000000000000000 == <<0, 0, 0, 0, 0, 0, 0, 128>>
XFF == <<255, 0, 0, 0, 0, 0, 0, 0>>
XFFFF == <<255, 255, 0, 0, 0, 0, 0, 0>>
XFFFFFFFF == <<255, 255, 255, 255, 0, 0, 0, 0>>

\* syn's IntSuffix and FloatSuffix, by name.
IntSuffixes ==
    {"None", "U8", "U16", "U32", "U64", "I8", "I16", "I32", "I64",
     "U128", "Isize"}
FloatSuffixes == {"None", "F32", "F64"}

----------------------------------------------------------------------------
(* int_to_suffix                                                           *)

\* The least signed suffix of a negated literal (lines 76-81).
MinSigned(num_bits) ==
    IF UGt(num_bits, X80000000) THEN "I64"
    ELSE IF UGt(num_bits, X8000) THEN "I32"
    ELSE IF UGt(num_bits, X80) THEN "I16"
    ELSE "I8"

\* MinUnsigned with `>=` for `>`.
MinUnsigned_Geq(num_bits) ==
    IF ~ULt(num_bits, XFFFFFFFF) THEN "U64"
    ELSE IF ~ULt(num_bits, XFFFF) THEN "U32"
    ELSE IF ~ULt(num_bits, XFF) THEN "U16"
    ELSE "U8"

\* The least unsigned suffix of a plain literal (lines 83-88).
MinUnsigned(num_bits) ==
    IF UGt(num_bits, XFFFFFFFF) THEN "U64"
    ELSE IF UGt(num_bits, XFFFF) THEN "U32"
    ELSE IF UGt(num_bits, XFF) THEN "U16"
    ELSE "U8"

\* The match arms without a guard (lines 94-114 and 120-125).
AllowedCasts ==
    {<<"U8", "U8">>, <<"U8", "U16">>, <<"U8", "U32">>, <<"U8", "U64">>,
     <<"U16", "U16">>, <<"U16", "U32">>, <<"U16", "U64">>,
     <<"U32", "U32">>, <<"U32", "U64">>,
     <<"U64", "U64">>,
     <<"I8", "I8">>, <<"I8", "I16">>, <<"I8", "I32">>, <<"I8", "I64">>,
     <<"I16", "I16">>, <<"I16", "I32">>, <<"I16", "I64">>,
     <<"I32", "I32">>, <<"I32", "I64">>,
     <<"I64", "I64">>,
     <<"U8", "I16">>, <<"U8", "I32">>, <<"U8", "I64">>,
     <<"U16", "I32">>, <<"U16", "I64">>,
     <<"U32", "I64">>}

\* GuardedCast with `<=` for `<`.
GuardedCast_Leq(num_bits, given, requested) ==
    \/ given = "U8" /\ requested = "I8" /\ ~UGt(num_bits, X80)
    \/ given = "U16" /\ requested = "I16" /\ ~UGt(num_bits, X8000)
    \/ given = "U32" /\ requested = "I32" /\ ~UGt(num_bits, X80000000)
    \/ given = "U64" /\ requested = "I64" /\ ~UGt(num_bits, X8000000000000000)

\* The guarded arms Uint -> Sint of the same size (lines 116-119).
GuardedCast(num_bits, given, requested) ==
    \/ given = "U8" /\ requested = "I8" /\ ULt(num_bits, X80)
    \/ given = "U16" /\ requested = "I16" /\ ULt(num_bits, X8000)
    \/ given = "U32" /\ requested = "I32" /\ ULt(num_bits, X80000000)
    \/ given = "U64" /\ requested = "I64" /\ ULt(num_bits, X8000000000000000)

\* int_to_suffix(negative, int): [err, s].
int_to_suffix(negative, int) ==
    LET num_bits == int.value
        s == IF negative THEN MinSigned(num_bits) ELSE MinUnsigned(num_bits)
    IN  IF int.suffix = "None" THEN [err |-> "", s |-> s]
        ELSE IF <<s, int.suffix>> \in AllowedCasts
                \/ GuardedCast(num_bits, s, int.suffix)
             THEN [err |-> "", s |-> int.suffix]
        ELSE [err |-> "IncompatibleNumberSuffix", s |-> s]

----------------------------------------------------------------------------
(* bytify_implementation_int                                               *)

\* byteorder's write_uN::<O>: the value's bytes, most significant first for
\* BE and least significant first for LE (write_u8 has no order).
write_uint(O, out, v) == out \o (IF O = "BE" THEN Reverse(v) ELSE v)

\* The size in bytes of a resolved integer suffix.
SuffixBytes(s) ==
    CASE s \in {"U8", "I8"} -> 1
      [] s \in {"U16", "I16"} -> 2
      [] s \in {"U32", "I32", "F32"} -> 4
      [] s \in {"U64", "I64", "F64"} -> 8

IsSigned(s) == s \in {"I8", "I16", "I32", "I64"}

\* bytify_implementation_int::<O>(negative, int, output): [err, out].
bytify_implementation_int(O, negative, int, out) ==
    LET num_bits == int.value
        r == int_to_suffix(negative, int)
    IN  IF r.err # "" THEN [err |-> r.err, out |-> out]
        ELSE IF r.s \notin {"U8", "U16", "U32", "U64", "I8", "I16", "I32", "I64"}
             THEN [err |-> "UnsupportedNumberSuffix", out |-> out]
        ELSE LET v == AsUint(num_bits, SuffixBytes(r.s))
             IN  IF IsSigned(r.s) /\ negative
                 THEN [err |-> "", out |-> write_uint(O, out, wrapping_add_1(BitNot(v)))]
                 ELSE [err |-> "", out |-> write_uint(O, out, v)]

----------------------------------------------------------------------------
(* float_to_suffix and bytify_implementation_float                         *)

\* The f64 nearest to the literal 3.40282347e+38 (0x47EFFFFFE091FF3D).
F32Threshold == [exp |-> 1150, hi |-> 8388607, lo |-> 9568061]

\* `a > b` on two non-negative finite f64 (a float literal has no sign).
FGt(a, b) ==
    \/ a.exp > b.exp
    \/ a.exp = b.exp /\ a.hi > b.hi
    \/ a.exp = b.exp /\ a.hi = b.hi /\ a.lo > b.lo

\* float_to_suffix(negative, float): [err, s].
float_to_suffix(negative, float) ==
    LET num_bits == float.fvalue
        s == IF FGt(num_bits, F32Threshold) THEN "F64" ELSE "F32"
    IN  IF float.suffix = "None" THEN [err |-> "", s |-> s]
        ELSE IF s = "F32" /\ float.suffix = "F64" THEN [err |-> "", s |-> "F64"]
        ELSE [err |-> "IncompatibleNumberSuffix", s |-> s]

RECURSIVE Pow2(_)
Pow2(n) == IF n = 0 THEN 1 ELSE 2 * Pow2(n - 1)

\* `x as f32` of a non-negative f64: round to nearest, ties to even; the
\* result's biased exponent and 23 bit fraction.
as_f32(x) ==
    LET e == x.exp - 896
    IN  IF x.exp = 0 THEN [exp |-> 0, frac |-> 0]
        ELSE IF e >= 255 THEN [exp |-> 255, frac |-> 0]
        ELSE IF e >= 1
        THEN LET up == x.lo > Pow2(28) \/ (x.lo = Pow2(28) /\ x.hi % 2 = 1)
                 m == x.hi + (IF up THEN 1 ELSE 0)
             IN  IF m = Pow2(23) THEN [exp |-> e + 1, frac |-> 0]
                 ELSE [exp |-> e, frac |-> m]
        ELSE IF 1 - e > 24 THEN [exp |-> 0, frac |-> 0]
        ELSE LET shift == 1 - e
                 full == Pow2(23) + x.hi
                 q == full \div Pow2(shift)
                 r == full % Pow2(shift)
                 half == Pow2(shift - 1)
                 up == r > half \/ (r = half /\ (x.lo > 0 \/ q % 2 = 1))
                 bits == q + (IF up THEN 1 ELSE 0)
             IN  [exp |-> bits \div Pow2(23), frac |-> bits % Pow2(23)]

\* The 4 bytes of an f32, least significant first; negative sets the sign bit.
F32Bytes(negative, y) ==
    <<y.frac % 256,
      (y.frac \div 256) % 256,
      (y.exp % 2) * 128 + y.frac \div 65536,
      (IF negative THEN 128 ELSE 0) + y.exp \div 2>>

\* The 8 bytes of an f64, least significant first.
F64Bytes(negative, x) ==
    <<x.lo % 256,
      (x.lo \div 256) % 256,
      (x.lo \div 65536) % 256,
      (x.hi % 8) * 32 + x.lo \div 16777216,
      (x.hi \div 8) % 256,
      (x.hi \div 2048) % 256,
      (x.exp % 16) * 16 + (x.hi \div 524288),
      (IF negative THEN 128 ELSE 0) + x.exp \div 16>>

\* bytify_implementation_float::<O>(negative, float, output): [err, out].
bytify_implementation_float(O, negative, float, out) ==
    LET num_bits == float.fvalue
        r == float_to_suffix(negative, float)
    IN  IF r.err # "" THEN [err |-> r.err, out |-> out]
        ELSE IF r.s = "F32"
             THEN [err |-> "", out |-> write_uint(O, out, F32Bytes(negative, as_f32(num_bits)))]
        ELSE IF r.s = "F64"
             THEN [err |-> "", out |-> write_uint(O, out, F64Bytes(negative, num_bits))]
        ELSE [err |-> "UnsupportedNumberSuffix", out |-> out]

----------------------------------------------------------------------------
(* bytify_implementation_element                                           *)

\* char::len_utf8
len_utf8(c) ==
    IF c < 128 THEN 1 ELSE IF c < 2048 THEN 2 ELSE IF c < 65536 THEN 3 ELSE 4

\* char::encode_utf8
encode_utf8(c) ==
    CASE len_utf8(c) = 1 -> <<c>>
      [] len_utf8(c) = 2 -> <<192 + c \div 64, 128 + (c % 64)>>
      [] len_utf8(c) = 3 ->
            <<224 + c \div 4096, 128 + ((c \div 64) % 64), 128 + (c % 64)>>
      [] len_utf8(c) = 4 ->
            <<240 + c \div 262144, 128 + ((c \div 4096) % 64),
              128 + ((c \div 64) % 64), 128 + (c % 64)>>

\* str::as_bytes of a string given as its chars.
RECURSIVE as_bytes(_)
as_bytes(s) ==
    IF s = <<>> THEN <<>> ELSE encode_utf8(Head(s)) \o as_bytes(Tail(s))

\* bytify_implementation_element with the char encoded at the start of
\* the buffer and not at offset.
bytify_implementation_element_NoOffset(O, lit, out) ==
    CASE lit.kind = "Char" ->
            LET resized == out \o Zeros(len_utf8(lit.ch))
                enc == encode_utf8(lit.ch)
            IN  [err |-> "",
                 out |-> [i \in 1..Len(resized) |->
                            IF i <= Len(enc) THEN enc[i] ELSE resized[i]]]
      [] lit.kind = "Str" -> [err |-> "", out |-> out \o as_bytes(lit.str)]
      [] lit.kind = "Int" -> bytify_implementation_int(O, FALSE, lit, out)
      [] lit.kind = "Float" -> bytify_implementation_float(O, FALSE, lit, out)
      [] OTHER -> [err |-> "UnsupportedLit", out |-> out]

\* bytify_implementation_element::<O>(lit, output): [err, out].
bytify_implementation_element(O, lit, out) ==
    CASE lit.kind = "Char" ->
            LET offset == Len(out)
                resized == out \o Zeros(len_utf8(lit.ch))
                enc == encode_utf8(lit.ch)
            IN  [err |-> "",
                 out |-> [i \in 1..Len(resized) |->
                            IF i > offset THEN enc[i - offset] ELSE resized[i]]]
      [] lit.kind = "Str" -> [err |-> "", out |-> out \o as_bytes(lit.str)]
      [] lit.kind = "Int" -> bytify_implementation_int(O, FALSE, lit, out)
      [] lit.kind = "Float" -> bytify_implementation_float(O, FALSE, lit, out)
      [] OTHER -> [err |-> "UnsupportedLit", out |-> out]

----------------------------------------------------------------------------
(* The body of the for loop of bytify_implementation                       *)

\* ExprEndianness with the tag read but the default kept.
ExprEndianness_DefaultKept(expr, default) ==
    IF expr.ty \in {"", "BE", "be", "LE", "le"}
    THEN [err |-> "", endianness |-> default]
    ELSE [err |-> "InvalidEndianness", endianness |-> default]

\* ExprEndianness with the tag compared without regard to case.
ExprEndianness_AnyCase(expr, default) ==
    IF expr.ty = "" THEN [err |-> "", endianness |-> default]
    ELSE IF expr.ty \in {"BE", "be", "Be", "bE"} THEN [err |-> "", endianness |-> "BE"]
    ELSE IF expr.ty \in {"LE", "le", "Le", "lE"} THEN [err |-> "", endianness |-> "LE"]
    ELSE [err |-> "InvalidEndianness", endianness |-> default]

\* The endianness of one expression (lines 282-300): [err, endianness].
\* expr.ty is the text of the type of an Expr::Type, "" for any other
\* expression.
ExprEndianness(expr, default) ==
    IF expr.ty = "" THEN [err |-> "", endianness |-> default]
    ELSE IF expr.ty \in {"BE", "be"} THEN [err |-> "", endianness |-> "BE"]
    ELSE IF expr.ty \in {"LE", "le"} THEN [err |-> "", endianness |-> "LE"]
    ELSE [err |-> "InvalidEndianness", endianness |-> default]

\* The byte order parameter the calls are made with (lines 303, 316, 323).
OrderOf(endianness) == IF endianness = "BE" THEN "BE" ELSE "LE"

\* MatchNegatedLit with the error of the other arms of the unary match.
MatchNegatedLit_Prefixed(lit, endianness, out) ==
    CASE lit.kind = "Int" ->
            bytify_implementation_int(OrderOf(endianness), TRUE, lit, out)
      [] lit.kind = "Float" ->
            bytify_implementation_float(OrderOf(endianness), TRUE, lit, out)
      [] OTHER -> [err |-> "UnsupportedPrefixedExpression", out |-> out]

\* The match on the literal of a negated literal (lines 314-332): [err, out].
MatchNegatedLit(lit, endianness, out) ==
    CASE lit.kind = "Int" ->
            bytify_implementation_int(OrderOf(endianness), TRUE, lit, out)
      [] lit.kind = "Float" ->
            bytify_implementation_float(OrderOf(endianness), TRUE, lit, out)
      [] OTHER -> [err |-> "UnsupportedLit", out |-> out]

\* The match on an Expr::Unary (lines 309-343): [err, out].
MatchUnary(expr, endianness, out) ==
    IF expr.op = "Neg"
    THEN IF expr.operand = "Lit"
         THEN MatchNegatedLit(expr.lit, endianness, out)
         ELSE [err |-> "UnsupportedPrefixedExpression", out |-> out]
    ELSE [err |-> "UnsupportedPrefixedExpression", out |-> out]

\* The match on the inner expression (lines 301-347): [err, out].
MatchExpr(expr, endianness, out) ==
    CASE expr.shape = "Lit" ->
            bytify_implementation_element(OrderOf(endianness), expr.lit, out)
      [] expr.shape = "Unary" -> MatchUnary(expr, endianness, out)
      [] OTHER -> [err |-> "UnsupportedExpression", out |-> out]

\* One iteration: the endianness, then the match.
LoopBody(expr, default, out) ==
    LET e == ExprEndianness(expr, default)
    IN  IF e.err # "" THEN [err |-> e.err, out |-> out]
        ELSE MatchExpr(expr, e.endianness, out)

----------------------------------------------------------------------------
(* The expressions given to the macro                                      *)

F0 == [exp |-> 0, hi |-> 0, lo |-> 0]

\* Literals: syn's Lit, one record shape for all kinds.
IntLit(v, s) ==
    [kind |-> "Int", value |-> v, suffix |-> s, fvalue |-> F0, ch |-> 0, str |-> <<>>]
FloatLit(f, s) ==
    [kind |-> "Float", value |-> Zeros(8), suffix |-> s, fvalue |-> f, ch |-> 0, str |-> <<>>]
CharLit(c) ==
    [kind |-> "Char", value |-> Zeros(8), suffix |-> "None", fvalue |-> F0, ch |-> c, str |-> <<>>]
StrLit(s) ==
    [kind |-> "Str", value |-> Zeros(8), suffix |-> "None", fvalue |-> F0, ch |-> 0, str |-> s]
BoolLit ==
    [kind |-> "Bool", value |-> Zeros(8), suffix |-> "None", fvalue |-> F0, ch |-> 0, str |-> <<>>]

\* The magnitudes of the integer literals: the boundaries of every width,
\* and values whose bytes all differ.
Magnitudes ==
    {<<0, 0, 0, 0, 0, 0, 0, 0>>, <<1, 0, 0, 0, 0, 0, 0, 0>>,
     <<127, 0, 0, 0, 0, 0, 0, 0>>, <<128, 0, 0, 0, 0, 0, 0, 0>>,
     <<129, 0, 0, 0, 0, 0, 0, 0>>, <<200, 0, 0, 0, 0, 0, 0, 0>>,
     <<255, 0, 0, 0, 0, 0, 0, 0>>, <<0, 1, 0, 0, 0, 0, 0, 0>>,
     <<44, 1, 0, 0, 0, 0, 0, 0>>, <<2, 1, 0, 0, 0, 0, 0, 0>>,
     <<255, 127, 0, 0, 0, 0, 0, 0>>, <<0, 128, 0, 0, 0, 0, 0, 0>>,
     <<1, 128, 0, 0, 0, 0, 0, 0>>, <<255, 255, 0, 0, 0, 0, 0, 0>>,
     <<0, 0, 1, 0, 0, 0, 0, 0>>, <<4, 3, 2, 1, 0, 0, 0, 0>>,
     <<255, 255, 255, 127, 0, 0, 0, 0>>, <<0, 0, 0, 128, 0, 0, 0, 0>>,
     <<1, 0, 0, 128, 0, 0, 0, 0>>, <<255, 255, 255, 255, 0, 0, 0, 0>>,
     <<0, 0, 0, 0, 1, 0, 0, 0>>, <<8, 7, 6, 5, 4, 3, 2, 1>>,
     <<255, 255, 255, 255, 255, 255, 255, 127>>,
     <<0, 0, 0, 0, 0, 0, 0, 128>>, <<1, 0, 0, 0, 0, 0, 0, 128>>,
     <<255, 255, 255, 255, 255, 255, 255, 255>>}

\* The values of the float literals: 0.0, 1.0, 3.5, 0.1, 1e-40,
\* 3.40282347e+38, 3.4028235e+38, 1e+39.
FloatValues ==
    {F0,
     [exp |-> 1023, hi |-> 0, lo |-> 0],
     [exp |-> 1024, hi |-> 6291456, lo |-> 0],
     [exp |-> 1019, hi |-> 5033164, lo |-> 429496730],
     [exp |-> 890, hi |-> 745777, lo |-> 125261724],
     F32Threshold,
     [exp |-> 1150, hi |-> 8388607, lo |-> 88977400],
     [exp |-> 1152, hi |-> 3937343, lo |-> 345786909]}

\* The chars: 'A', U+7F, U+80, 'e' acute, U+7FF, U+800, the euro sign,
\* U+FFFF, U+10000, U+1F600.
Chars == {65, 127, 128, 233, 2047, 2048, 8364, 65535, 65536, 128512}

Strs == {<<>>, <<104, 105>>, <<233, 8364, 128512>>}

Lits ==
    {IntLit(v, s) : v \in Magnitudes, s \in IntSuffixes}
    \cup {FloatLit(f, s) : f \in FloatValues, s \in FloatSuffixes}
    \cup {CharLit(c) : c \in Chars}
    \cup {StrLit(s) : s \in Strs}
    \cup {BoolLit}

\* An expression: ty is the type text of an Expr::Type ("" when the
\* expression is no Expr::Type), shape the variant of the (inner)
\* expression, op and operand the operator of an Expr::Unary and the variant
\* of its operand, lit the literal of an Expr::Lit (of the operand).
MkExpr(ty, shape, op, operand, lit) ==
    [ty |-> ty, shape |-> shape, op |-> op, operand |-> operand, lit |-> lit]

Tys == {"", "BE", "be", "LE", "le", "Be", "bE", "Le", "lE", "u8"}

Exprs ==
    {MkExpr(ty, "Lit", "", "", l) : ty \in Tys, l \in Lits}
    \cup {MkExpr(ty, "Unary", "Neg", "Lit", l) : ty \in Tys, l \in Lits}
    \cup {MkExpr(ty, "Unary", op, "Lit", IntLit(<<1, 0, 0, 0, 0, 0, 0, 0>>, "None")) :
            ty \in Tys, op \in {"Not", "Deref"}}
    \cup {MkExpr(ty, "Unary", op, operand, BoolLit) :
            ty \in Tys, op \in {"Neg", "Not", "Deref"}, operand \in {"Unary", "Path"}}
    \cup {MkExpr(ty, shape, "", "", BoolLit) : ty \in Tys, shape \in {"Path", "Call", "Type"}}

\* The expressions the longer lists are made of.
ListExprs ==
    {MkExpr("BE", "Lit", "", "", IntLit(<<1, 0, 0, 0, 0, 0, 0, 0>>, "U16")),
     MkExpr("LE", "Lit", "", "", IntLit(<<1, 0, 0, 0, 0, 0, 0, 0>>, "U16")),
     MkExpr("", "Lit", "", "", IntLit(<<1, 0, 0, 0, 0, 0, 0, 0>>, "U16")),
     MkExpr("", "Lit", "", "", IntLit(<<4, 3, 2, 1, 0, 0, 0, 0>>, "None")),
     MkExpr("be", "Unary", "Neg", "Lit", IntLit(<<2, 1, 0, 0, 0, 0, 0, 0>>, "None")),
     MkExpr("", "Lit", "", "", IntLit(<<44, 1, 0, 0, 0, 0, 0, 0>>, "U8")),
     MkExpr("", "Lit", "", "", CharLit(233)),
     MkExpr("BE", "Lit", "", "", StrLit(<<104, 105>>)),
     MkExpr("be", "Lit", "", "", FloatLit([exp |-> 1023, hi |-> 0, lo |-> 0], "None")),
     MkExpr("", "Path", "", "", BoolLit),
     MkExpr("", "Unary", "Neg", "Lit", StrLit(<<104, 105>>)),
     MkExpr("Be", "Lit", "", "", IntLit(<<1, 0, 0, 0, 0, 0, 0, 0>>, "U16")),
     MkExpr("", "Unary", "Not", "Lit", IntLit(<<1, 0, 0, 0, 0, 0, 0, 0>>, "None"))}

Inputs ==
    {<<e>> : e \in Exprs}
    \cup UNION {[1..k -> ListExprs] : k \in 0..MaxLen}

----------------------------------------------------------------------------
(* The state machine                                                       *)

Init ==
    /\ DEFAULT_ENDIANNESS \in {"LE", "BE"}
    /\ input \in Inputs
    /\ pos = 0
    /\ output = <<>>
    /\ result = ""
    /\ returned = <<>>
    /\ pc = "loop"

\* Iterate with a failing expression skipped and the loop going on.
Iterate_SkipFailing ==
    /\ pc = "loop"
    /\ pos < Len(input)
    /\ LET r == LoopBody(input[pos + 1], DEFAULT_ENDIANNESS, output)
       IN  output' = r.out /\ pos' = pos + 1
    /\ UNCHANGED <<DEFAULT_ENDIANNESS, input, returned, result, pc>>

\* One iteration of the for loop of bytify_implementation: the expression's
\* bytes are appended, or its error is returned.
Iterate ==
    /\ pc = "loop"
    /\ pos < Len(input)
    /\ LET r == LoopBody(input[pos + 1], DEFAULT_ENDIANNESS, output)
       IN  /\ output' = r.out
           /\ IF r.err = ""
              THEN pos' = pos + 1 /\ UNCHANGED <<result, pc>>
              ELSE pos' = pos /\ result' = r.err /\ pc' = "return"
    /\ UNCHANGED <<DEFAULT_ENDIANNESS, input, returned>>

\* The list is exhausted: Ok(quote! { [ #(#output),* ] }).
ReturnOk ==
    /\ pc = "loop"
    /\ pos = Len(input)
    /\ result' = "Ok"
    /\ pc' = "return"
    /\ UNCHANGED <<DEFAULT_ENDIANNESS, input, pos, output, returned>>

\* bytify: the result's tokens, or a panic with the error.
Bytify ==
    /\ pc = "return"
    /\ IF result = "Ok"
       THEN returned' = <<output>> /\ pc' = "done"
       ELSE returned' = <<>> /\ pc' = "panic"
    /\ UNCHANGED <<DEFAULT_ENDIANNESS, input, pos, output, result>>

Next == Iterate \/ ReturnOk \/ Bytify

Spec == Init /\ [][Next]_vars

----------------------------------------------------------------------------
(* Properties: the vocabulary of the statements, defined on numbers and    *)
(* not through the operators above                                         *)

\* The only expression of a one-element list.
TheExpr == input[1]

Single == Len(input) = 1

\* The loop has dealt with the only expression: appended it or failed on it.
Acted == Single /\ (pos = 1 \/ result \notin {"", "Ok"})

\* The only expression was appended.
Accepted == Single /\ pos = 1

IsPlainInt(e) == e.shape = "Lit" /\ e.lit.kind = "Int"

IsNegatedInt(e) ==
    e.shape = "Unary" /\ e.op = "Neg" /\ e.operand = "Lit" /\ e.lit.kind = "Int"

IsPlainFloat(e) == e.shape = "Lit" /\ e.lit.kind = "Float"

IsNegatedFloat(e) ==
    e.shape = "Unary" /\ e.op = "Neg" /\ e.operand = "Lit" /\ e.lit.kind = "Float"

\* The four spellings of a byte order, and no type at all.
KnownTy(e) == e.ty \in {"", "BE", "be", "LE", "le"}

\* The byte order of an element: its own tag's, the default without one.
ElementOrder(e) ==
    IF e.ty \in {"BE", "be"} THEN "BE"
    ELSE IF e.ty \in {"LE", "le"} THEN "LE"
    ELSE DEFAULT_ENDIANNESS

Widths == {1, 2, 4, 8}

\* M < 2^(8 * w)
FitsUnsigned(M, w) == \A i \in (w + 1)..8 : M[i] = 0

\* M < 2^(8 * w - 1)
FitsBelowHalf(M, w) == FitsUnsigned(M, w) /\ M[w] < 128

\* M <= 2^(8 * w - 1)
FitsSigned(M, w) ==
    \/ FitsBelowHalf(M, w)
    \/ FitsUnsigned(M, w) /\ M[w] = 128 /\ \A i \in 1..(w - 1) : M[i] = 0

\* The least width an unsigned M fits in.
LeastUnsigned(M) ==
    CHOOSE w \in Widths :
        FitsUnsigned(M, w) /\ \A v \in Widths : v < w => ~FitsUnsigned(M, v)

\* The least width the negation of M is inferred to have: 1 if M <= 0x80,
\* 2 if M <= 0x8000, 4 if M <= 0x80000000, else 8.
LeastSigned(M) ==
    IF FitsSigned(M, 1) THEN 1
    ELSE IF FitsSigned(M, 2) THEN 2
    ELSE IF FitsSigned(M, 4) THEN 4
    ELSE 8

WidthOf(S) ==
    CASE S \in {"U8", "I8"} -> 1
      [] S \in {"U16", "I16"} -> 2
      [] S \in {"U32", "I32"} -> 4
      [] S \in {"U64", "I64"} -> 8

SignedSuffixes == {"I8", "I16", "I32", "I64"}
UnsignedSuffixes == {"U8", "U16", "U32", "U64"}

\* The bytes of an element read in a byte order, as a 64 bit word.
ReadUnsigned(bytes, order) ==
    (IF order = "BE" THEN Reverse(bytes) ELSE bytes) \o Zeros(8 - Len(bytes))

\* (0 - x) mod 2^(8 * Len(x)), by subtraction with borrow.
RECURSIVE SubFromZero(_, _)
SubFromZero(x, borrow) ==
    IF x = <<>> THEN <<>>
    ELSE LET d == 0 - Head(x) - borrow
         IN  IF d < 0 THEN <<d + 256>> \o SubFromZero(Tail(x), 1)
             ELSE <<d>> \o SubFromZero(Tail(x), 0)

\* A number: its sign and its magnitude (zero has no sign).
Number(negative, M) == [neg |-> negative /\ M # Zeros(8), mag |-> M]

\* The number the bytes stand for at their width, signedness and order.
Decode(bytes, signed, order) ==
    LET le == IF order = "BE" THEN Reverse(bytes) ELSE bytes
    IN  IF signed /\ le[Len(le)] >= 128
        THEN [neg |-> TRUE, mag |-> SubFromZero(le, 0) \o Zeros(8 - Len(le))]
        ELSE [neg |-> FALSE, mag |-> le \o Zeros(8 - Len(le))]

----------------------------------------------------------------------------
\* C1: a plain integer literal without a suffix is appended as exactly W
\* bytes, W the least of 1, 2, 4, 8 with M < 2^(8 * W), and the bytes read
\* in the element's byte order as an unsigned integer are M.
C1_UnsuffixedUnsigned ==
    (Acted /\ IsPlainInt(TheExpr) /\ TheExpr.lit.suffix = "None" /\ KnownTy(TheExpr)) =>
        /\ Accepted
        /\ Len(output) = LeastUnsigned(TheExpr.lit.value)
        /\ ReadUnsigned(output, ElementOrder(TheExpr)) = TheExpr.lit.value

\* 0x0102030405060708 tagged BE was appended as its 8 bytes, high byte first.
C1_Witness ==
    /\ Accepted
    /\ IsPlainInt(TheExpr) /\ TheExpr.lit.suffix = "None" /\ TheExpr.ty = "BE"
    /\ TheExpr.lit.value = <<8, 7, 6, 5, 4, 3, 2, 1>>
    /\ output = <<1, 2, 3, 4, 5, 6, 7, 8>>

\* C2: an accepted negated integer literal is appended as the two's
\* complement of its magnitude at the resolved signed width W (the
\* inferred one without a suffix, the suffix's with a signed suffix):
\* (2^(8 * W) - M) mod 2^(8 * W), in the element's byte order.
C2_TwosComplement ==
    (Accepted /\ IsNegatedInt(TheExpr) /\ KnownTy(TheExpr)) =>
        LET M == TheExpr.lit.value
            S == TheExpr.lit.suffix
            W == IF S = "None" THEN LeastSigned(M) ELSE WidthOf(S)
        IN  /\ S \in SignedSuffixes \cup {"None"}
            /\ W >= LeastSigned(M)
            /\ Len(output) = W
            /\ ReadUnsigned(output, ElementOrder(TheExpr))
                 = SubFromZero(SubSeq(M, 1, W), 0) \o Zeros(8 - W)

\* -129 with suffix i32, tagged be, was appended as FF FF FF 7F.
C2_Witness ==
    /\ Accepted
    /\ IsNegatedInt(TheExpr) /\ TheExpr.ty = "be" /\ TheExpr.lit.suffix = "I32"
    /\ TheExpr.lit.value = <<129, 0, 0, 0, 0, 0, 0, 0>>
    /\ output = <<255, 255, 255, 127>>

\* C3: decoding the bytes of an accepted integer literal at the resolved
\* width and signedness and in the element's order gives the literal's
\* number back: M for a plain literal, -M for a negated one.
C3_RoundTrip ==
    (Accepted /\ (IsPlainInt(TheExpr) \/ IsNegatedInt(TheExpr)) /\ KnownTy(TheExpr)) =>
        LET M == TheExpr.lit.value
            S == TheExpr.lit.suffix
            negative == IsNegatedInt(TheExpr)
            signed == IF S = "None" THEN negative ELSE S \in SignedSuffixes
        IN  Decode(output, signed, ElementOrder(TheExpr)) = Number(negative, M)

\* C4: the suffixes an integer literal is accepted with: the same family
\* and at least the minimal width; a signed suffix wider than the minimal
\* unsigned width; a signed suffix of the minimal unsigned width when
\* M < 2^(bits - 1).
SuffixAccepted(negative, M, S) ==
    LET min == IF negative THEN LeastSigned(M) ELSE LeastUnsigned(M)
    IN  \/ negative /\ S \in SignedSuffixes /\ WidthOf(S) >= min
        \/ ~negative /\ S \in UnsignedSuffixes /\ WidthOf(S) >= min
        \/ ~negative /\ S \in SignedSuffixes /\ WidthOf(S) > min
        \/ ~negative /\ S \in SignedSuffixes /\ WidthOf(S) = min
             /\ FitsBelowHalf(M, WidthOf(S))

\* C4: an integer literal with an explicit suffix S is accepted, resolved
\* to exactly S, if and only if S widens its minimal width as above; any
\* other combination fails with IncompatibleNumberSuffix and appends nothing.
C4_WideningOnly ==
    (/\ Acted
     /\ IsPlainInt(TheExpr) \/ IsNegatedInt(TheExpr)
     /\ TheExpr.lit.suffix \in SignedSuffixes \cup UnsignedSuffixes
     /\ KnownTy(TheExpr)) =>
        LET M == TheExpr.lit.value
            S == TheExpr.lit.suffix
            negative == IsNegatedInt(TheExpr)
        IN  IF SuffixAccepted(negative, M, S)
            THEN /\ Accepted
                 /\ Len(output) = WidthOf(S)
                 /\ int_to_suffix(negative, TheExpr.lit) = [err |-> "", s |-> S]
            ELSE /\ result = "IncompatibleNumberSuffix"
                 /\ pos = 0
                 /\ output = <<>>

\* 127 with suffix i8 was accepted and 128 with suffix i8 refused.
C4_Witness ==
    /\ Acted
    /\ IsPlainInt(TheExpr) /\ TheExpr.lit.suffix = "I8" /\ TheExpr.ty = ""
    /\ \/ TheExpr.lit.value = <<127, 0, 0, 0, 0, 0, 0, 0>> /\ output = <<127>>
       \/ TheExpr.lit.value = <<128, 0, 0, 0, 0, 0, 0, 0>>
            /\ result = "IncompatibleNumberSuffix"

----------------------------------------------------------------------------
\* The minimal width of a float literal: F64 above 3.40282347e+38, else F32.
LeastFloat(f) == IF FGt(f, F32Threshold) THEN "F64" ELSE "F32"

\* C5: the float suffix table: no suffix resolves to the minimal width,
\* F32 to f32, F32 to f64 and F64 to f64 resolve to the suffix, and F64 to
\* f32 is the only combination refused, with IncompatibleNumberSuffix.
C5_FloatSuffixTable ==
    (Acted /\ (IsPlainFloat(TheExpr) \/ IsNegatedFloat(TheExpr)) /\ KnownTy(TheExpr)) =>
        LET min == LeastFloat(TheExpr.lit.fvalue)
            S == TheExpr.lit.suffix
            resolved == IF S = "None" THEN min ELSE S
        IN  IF min = "F64" /\ S = "F32"
            THEN result = "IncompatibleNumberSuffix" /\ output = <<>>
            ELSE Accepted /\ Len(output) = (IF resolved = "F32" THEN 4 ELSE 8)

----------------------------------------------------------------------------
\* An arithmetic negation of an integer or float literal.
IsNegatedNumber(e) == IsNegatedInt(e) \/ IsNegatedFloat(e)

\* C6 as stated: every unary expression that is no negation of an integer
\* or float literal fails with UnsupportedPrefixedExpression.
C6_UnaryAlwaysPrefixedError ==
    (Acted /\ TheExpr.shape = "Unary" /\ ~IsNegatedNumber(TheExpr) /\ KnownTy(TheExpr)) =>
        result = "UnsupportedPrefixedExpression"

\* C6 as amended: a unary expression that is no negation of an integer or
\* float literal fails and appends nothing; the negation of any other
\* literal (a char, a string) fails with UnsupportedLit, the negation of a
\* non-literal and any other unary operator with
\* UnsupportedPrefixedExpression.
C6_UnaryErrors ==
    (Acted /\ TheExpr.shape = "Unary" /\ ~IsNegatedNumber(TheExpr) /\ KnownTy(TheExpr)) =>
        /\ pos = 0
        /\ output = <<>>
        /\ result = (IF TheExpr.op = "Neg" /\ TheExpr.operand = "Lit"
                     THEN "UnsupportedLit"
                     ELSE "UnsupportedPrefixedExpression")

\* The negation of a string literal has failed with UnsupportedLit.
C6_Witness ==
    /\ Acted
    /\ TheExpr.shape = "Unary" /\ TheExpr.op = "Neg" /\ TheExpr.operand = "Lit"
    /\ TheExpr.lit.kind = "Str"
    /\ result = "UnsupportedLit"
    /\ pc = "panic"

----------------------------------------------------------------------------
\* What one element appends and the error it fails with, taken alone.
Enc(e) == LoopBody(e, DEFAULT_ENDIANNESS, <<>>).out
ElemErr(e) == LoopBody(e, DEFAULT_ENDIANNESS, <<>>).err

RECURSIVE ConcatEnc(_)
ConcatEnc(s) == IF s = <<>> THEN <<>> ELSE Enc(Head(s)) \o ConcatEnc(Tail(s))

IsNumeric(e) ==
    IsPlainInt(e) \/ IsNegatedInt(e) \/ IsPlainFloat(e) \/ IsNegatedFloat(e)

\* The bytes of a numeric element in the order of its own tag (the default
\* order without one): its little endian bytes, reversed for BE.
InOwnOrder(e) ==
    LET le == MatchExpr(e, "LE", <<>>).out
    IN  IF IsNumeric(e) /\ ElementOrder(e) = "BE" THEN Reverse(le) ELSE le

RECURSIVE ConcatInOwnOrder(_)
ConcatInOwnOrder(s) ==
    IF s = <<>> THEN <<>> ELSE InOwnOrder(Head(s)) \o ConcatInOwnOrder(Tail(s))

\* C7: each element is laid out in the order of its own tag, or in the
\* build's default order without one, whatever the tags before and after it.
C7_TagIsPerElement == output = ConcatInOwnOrder(SubSeq(input, 1, pos))

\* 1u16 tagged BE then 1u16 tagged LE gave 00 01 01 00, and a following
\* untagged 1u16 the default order.
C7_Witness ==
    /\ Len(input) = 3 /\ pos = 3
    /\ input[1].ty = "BE" /\ input[2].ty = "LE" /\ input[3].ty = ""
    /\ \A i \in 1..3 : IsPlainInt(input[i]) /\ input[i].lit.suffix = "U16"
                        /\ input[i].lit.value = <<1, 0, 0, 0, 0, 0, 0, 0>>
    /\ SubSeq(output, 1, 4) = <<0, 1, 1, 0>>
    /\ SubSeq(output, 5, 6) = (IF DEFAULT_ENDIANNESS = "BE" THEN <<0, 1>> ELSE <<1, 0>>)

----------------------------------------------------------------------------
\* The indices of the invalid elements of the input.
Invalid == {i \in 1..Len(input) : ElemErr(input[i]) # ""}

FirstInvalid == CHOOSE i \in Invalid : \A j \in Invalid : i <= j

\* C8: once bytify is over, the caller has the bytes of every element if
\* all are valid; otherwise only the failure of the first invalid element,
\* no element after it was processed and no bytes are returned.
C8_AllOrNothing ==
    (pc \in {"done", "panic"}) =>
        IF Invalid = {}
        THEN /\ pc = "done"
             /\ result = "Ok"
             /\ pos = Len(input)
             /\ returned = <<ConcatEnc(input)>>
        ELSE /\ pc = "panic"
             /\ result = ElemErr(input[FirstInvalid])
             /\ pos = FirstInvalid - 1
             /\ output = ConcatEnc(SubSeq(input, 1, FirstInvalid - 1))
             /\ returned = <<>>

\* A valid element, then two invalid ones of different kinds: the call
\* failed with the first one's kind and returned nothing.
C8_Witness ==
    /\ pc = "panic"
    /\ Len(input) = 3
    /\ Invalid = {2, 3}
    /\ ElemErr(input[2]) = "UnsupportedExpression"
    /\ ElemErr(input[3]) = "InvalidEndianness"
    /\ result = "UnsupportedExpression"
    /\ output # <<>>
    /\ returned = <<>>

----------------------------------------------------------------------------
IsPrefix(a, b) == Len(a) <= Len(b) /\ SubSeq(b, 1, Len(a)) = a

\* The UTF-8 byte count of a char.
Utf8Count(c) ==
    CASE c <= 127 -> 1
      [] c > 127 /\ c <= 2047 -> 2
      [] c > 2047 /\ c <= 65535 -> 3
      [] c > 65535 -> 4

RECURSIVE Utf8Length(_)
Utf8Length(s) == IF s = <<>> THEN 0 ELSE Utf8Count(Head(s)) + Utf8Length(Tail(s))

\* The resolved width in bytes of a valid element.
ElementWidth(e) ==
    CASE IsPlainInt(e) \/ IsNegatedInt(e) ->
            IF e.lit.suffix # "None" THEN WidthOf(e.lit.suffix)
            ELSE IF IsNegatedInt(e) THEN LeastSigned(e.lit.value)
            ELSE LeastUnsigned(e.lit.value)
      [] IsPlainFloat(e) \/ IsNegatedFloat(e) ->
            IF e.lit.suffix = "F32" THEN 4
            ELSE IF e.lit.suffix = "F64" THEN 8
            ELSE IF LeastFloat(e.lit.fvalue) = "F32" THEN 4 ELSE 8
      [] e.shape = "Lit" /\ e.lit.kind = "Char" -> Utf8Count(e.lit.ch)
      [] e.shape = "Lit" /\ e.lit.kind = "Str" -> Utf8Length(e.lit.str)

RECURSIVE SumWidths(_)
SumWidths(s) == IF s = <<>> THEN 0 ELSE ElementWidth(Head(s)) + SumWidths(Tail(s))

\* After k elements the buffer is the concatenation of their encodings, and
\* on success its length is the sum of the elements' widths.
BufferIsConcatenation ==
    /\ output = ConcatEnc(SubSeq(input, 1, pos))
    /\ result = "Ok" => Len(output) = SumWidths(input)
    /\ pc = "done" => returned = <<output>>

\* C9: the buffer starts empty, only grows at its end, is after k elements
\* the concatenation of the encodings of elements 1..k, and on success is
\* as long as the sum of the elements' resolved widths.
C9_AppendOnlyConcatenation ==
    /\ output = <<>>
    /\ []BufferIsConcatenation
    /\ [][IsPrefix(output, output')]_vars

\* A 4 byte integer, a 2 byte char and a 2 byte string made 8 bytes.
C9_Witness ==
    /\ pc = "done"
    /\ Len(input) = 3
    /\ IsPlainInt(input[1]) /\ input[1].lit.value = <<4, 3, 2, 1, 0, 0, 0, 0>>
    /\ input[2].lit.kind = "Char"
    /\ input[3].lit.kind = "Str"
    /\ Len(output) = 8
    /\ returned = <<output>>

----------------------------------------------------------------------------
\* The spelling of a tag in lower case.
Lower(ty) ==
    CASE ty \in {"BE", "be", "Be", "bE"} -> "be"
      [] ty \in {"LE", "le", "Le", "lE"} -> "le"
      [] OTHER -> ty

\* A plain integer literal without a suffix: its bytes show the order.
ShowsOrder(e) == IsPlainInt(e) /\ e.lit.suffix = "None"

\* C10 as stated: every case variant of "be" selects BigEndian and every
\* case variant of "le" LittleEndian; any other tag fails with
\* InvalidEndianness.
C10_CaseInsensitiveTags ==
    (Acted /\ TheExpr.ty # "" /\ ShowsOrder(TheExpr)) =>
        IF Lower(TheExpr.ty) \in {"be", "le"}
        THEN /\ Accepted
             /\ ReadUnsigned(output, IF Lower(TheExpr.ty) = "be" THEN "BE" ELSE "LE")
                  = TheExpr.lit.value
        ELSE result = "InvalidEndianness"

\* C10 as amended: exactly the spellings be, BE select BigEndian and le, LE
\* LittleEndian for the element; any other tag, the mixed case spellings
\* Be, bE, Le, lE included, fails with InvalidEndianness whatever it wraps.
C10_ExactTags ==
    (Acted /\ TheExpr.ty # "") =>
        IF TheExpr.ty \in {"BE", "be", "LE", "le"}
        THEN /\ result # "InvalidEndianness"
             /\ ShowsOrder(TheExpr) =>
                  /\ Accepted
                  /\ ReadUnsigned(output, IF TheExpr.ty \in {"BE", "be"} THEN "BE" ELSE "LE")
                       = TheExpr.lit.value
        ELSE result = "InvalidEndianness" /\ pos = 0 /\ output = <<>>

\* 0x0102 tagged Be has failed with InvalidEndianness.
C10_Witness ==
    /\ Acted
    /\ TheExpr.ty = "Be"
    /\ ShowsOrder(TheExpr) /\ TheExpr.lit.value = <<2, 1, 0, 0, 0, 0, 0, 0>>
    /\ result = "InvalidEndianness"
    /\ pc = "panic"

====
